---- MODULE Spec2Model ----
(***************************************************************************)
(* A model of random.h (xoshiro256++) and random_float.h (xoshiro256+):    *)
(* the SplitMix64 seeding, the core step, and the distribution functions   *)
(* built on it.                                                            *)
(*                                                                         *)
(* Machine words are bit vectors: a sequence of bits, least significant    *)
(* bit first, whose length is the width of the C type (64 for uint64_t,    *)
(* 32 for int).  All arithmetic is modulo 2^width, as in C.                *)
(***************************************************************************)
EXTENDS Integers, Sequences, FiniteSets, TLC

\* Width of uint64_t, the type of the state words and of every drawn word.
W == 64
\* Width of int, the argument and result type of random_int.
IntW == 32

---------------------------------------------------------------------------
(* Bit vectors.  Every operator returns an explicit tuple (the trailing    *)
(* concatenation turns a function expression into one).                    *)

Zeros(n) == [i \in 1..n |-> 0] \o <<>>
Ones(n) == [i \in 1..n |-> 1] \o <<>>

\* The bit at position i (1 = least significant), 0 beyond the width.
BitAt(x, i) == IF i >= 1 /\ i <= Len(x) THEN x[i] ELSE 0

\* A hexadecimal literal, most significant digit first, as a bit vector.
RECURSIVE HexBits(_)
HexBits(ds) ==
    IF ds = <<>> THEN <<>>
    ELSE LET d == ds[Len(ds)]
         IN <<d % 2, (d \div 2) % 2, (d \div 4) % 2, (d \div 8) % 2>>
                \o HexBits(SubSeq(ds, 1, Len(ds) - 1))

\* The w-bit vector of a small natural number n (n < 2^31).
NatBits(n, w) ==
    [i \in 1..w |-> IF i > 31 THEN 0 ELSE (n \div 2^(i - 1)) % 2] \o <<>>

\* The natural number a bit vector denotes (for vectors of small width only).
RECURSIVE Val(_)
Val(x) == IF x = <<>> THEN 0 ELSE x[1] + 2 * Val(Tail(x))

IsZero(x) == \A i \in 1..Len(x) : x[i] = 0

\* x ^ y, x | y, ~x
BXor(x, y) == [i \in 1..Len(x) |-> (x[i] + y[i]) % 2] \o <<>>
BOr(x, y) == [i \in 1..Len(x) |-> IF x[i] + y[i] > 0 THEN 1 ELSE 0] \o <<>>
BNot(x) == [i \in 1..Len(x) |-> 1 - x[i]] \o <<>>

\* x << k and x >> k (logical), for 0 <= k <= width
Shl(x, k) == Zeros(k) \o SubSeq(x, 1, Len(x) - k)
Shr(x, k) == SubSeq(x, k + 1, Len(x)) \o Zeros(k)

\* Arithmetic goes byte by byte.  Byte j (from 0) of x as a number; the
\* bytes of x, low byte first; and the w-bit vector of a byte sequence.
Byte(x, j) ==
    BitAt(x, 8 * j + 1) + 2 * BitAt(x, 8 * j + 2) + 4 * BitAt(x, 8 * j + 3)
        + 8 * BitAt(x, 8 * j + 4) + 16 * BitAt(x, 8 * j + 5)
        + 32 * BitAt(x, 8 * j + 6) + 64 * BitAt(x, 8 * j + 7)
        + 128 * BitAt(x, 8 * j + 8)
NumBytes(w) == (w + 7) \div 8
Bytes(x) == [j \in 1..NumBytes(Len(x)) |-> Byte(x, j - 1)] \o <<>>
FromBytes(b, w) ==
    [i \in 1..w |-> (b[(i - 1) \div 8 + 1] \div 2^((i - 1) % 8)) % 2] \o <<>>

\* a + b + c on byte sequences, by ripple carry; acc holds the bytes done.
RECURSIVE AddBytes(_, _, _, _)
AddBytes(a, b, c, acc) ==
    IF Len(acc) = Len(a) THEN acc
    ELSE LET t == a[Len(acc) + 1] + b[Len(acc) + 1] + c
         IN AddBytes(a, b, t \div 256, Append(acc, t % 256))

\* x + y + c modulo 2^width (c is 0 or 1)
AddC(x, y, c) == FromBytes(AddBytes(Bytes(x), Bytes(y), c, <<>>), Len(x))
Add(x, y) == AddC(x, y, 0)
\* x - y modulo 2^width (x + ~y + 1), and -x
Sub(x, y) == AddC(x, BNot(y), 1)
Neg(x) == Sub(Zeros(Len(x)), x)

\* x * y modulo 2^width.  Column k (from 1) of the schoolbook product
\* holds the partial products x[i] * y[k+1-i]; the columns are summed
\* eight at a time, with the carry of the columns below.
MulColumn(x, y, k) ==
    IF k > Len(x) THEN 0
    ELSE Cardinality({i \in 1..k : x[i] = 1 /\ y[k + 1 - i] = 1})
RECURSIVE MulBytes(_, _, _, _)
MulBytes(x, y, c, acc) ==
    IF Len(acc) = NumBytes(Len(x)) THEN acc
    ELSE LET k == 8 * Len(acc)
             t == c + MulColumn(x, y, k + 1) + 2 * MulColumn(x, y, k + 2)
                    + 4 * MulColumn(x, y, k + 3) + 8 * MulColumn(x, y, k + 4)
                    + 16 * MulColumn(x, y, k + 5) + 32 * MulColumn(x, y, k + 6)
                    + 64 * MulColumn(x, y, k + 7) + 128 * MulColumn(x, y, k + 8)
         IN MulBytes(x, y, t \div 256, Append(acc, t % 256))

Mul(x, y) == FromBytes(MulBytes(x, y, 0, <<>>), Len(x))

\* Unsigned x < y: at the highest bit where they differ, x has 0.
ULt(x, y) ==
    \E i \in 1..Len(x) :
        /\ x[i] < y[i]
        /\ \A j \in (i + 1)..Len(x) : x[j] = y[j]
ULe(x, y) == ~ULt(y, x)

\* Zero extension and truncation to w bits.
ZExt(x, w) == x \o Zeros(w - Len(x))
Trunc(x, w) == SubSeq(x, 1, w)
\* Sign extension of a two's complement value to w bits.
SExt(x, w) == x \o [i \in 1..(w - Len(x)) |-> x[Len(x)]]

\* Unsigned remainder x % n (n # 0) by long division from the top bit.
\* r is the remainder of the bits consumed so far, and the next bit is
\* shifted in; r and n are one bit wider than x, so 2r + 1 fits.
RemShift(r, bit) == <<bit>> \o SubSeq(r, 1, Len(r) - 1)
RemStep(r, bit, n) ==
    LET r2 == RemShift(r, bit)
    IN IF ULe(n, r2) THEN Sub(r2, n) ELSE r2
\* Bits i, i-1, ..., i-7 of x at a time (the width of x is a multiple of 8).
RECURSIVE RemC(_, _, _, _)
RemC(x, n, i, r) ==
    IF i = 0 THEN r
    ELSE LET r7 == RemStep(RemStep(RemStep(RemStep(RemStep(RemStep(RemStep(
                       r, x[i], n), x[i - 1], n), x[i - 2], n), x[i - 3], n),
                       x[i - 4], n), x[i - 5], n), x[i - 6], n)
             r8 == RemShift(r7, x[i - 7])
         IN IF ULe(n, r8) THEN RemC(x, n, i - 8, Sub(r8, n))
                          ELSE RemC(x, n, i - 8, r8)

URem(x, n) ==
    LET w8 == 8 * NumBytes(Len(x))
    IN Trunc(RemC(ZExt(x, w8), ZExt(n, w8 + 1), w8, Zeros(w8 + 1)), Len(x))

---------------------------------------------------------------------------
(* SplitMix64 and seeding.                                                 *)

\* 0x9e3779b97f4a7c15
GOLDEN_GAMMA == HexBits(<<9,14,3,7, 7,9,11,9, 7,15,4,10, 7,12,1,5>>)
\* 0xbf58476d1ce4e5b9
MIX_A == HexBits(<<11,15,5,8, 4,7,6,13, 1,12,14,4, 14,5,11,9>>)
\* 0x94d049bb133111eb
MIX_B == HexBits(<<9,4,13,0, 4,9,11,11, 1,3,3,1, 1,1,14,11>>)

random__split_mix_64(x0) ==
    LET x1 == Add(x0, GOLDEN_GAMMA)
        x2 == Mul(BXor(x1, Shr(x1, 30)), MIX_A)
        x3 == Mul(BXor(x2, Shr(x2, 27)), MIX_B)
    IN BXor(x3, Shr(x3, 31))

\* random_seed mixing the seed into s[0] instead of overwriting it.
random_seed_xor(old, seed) ==
    LET s0 == BXor(old[1], random__split_mix_64(seed))
        s1 == random__split_mix_64(s0)
        s2 == random__split_mix_64(s1)
        s3 == random__split_mix_64(s2)
    IN <<s0, s1, s2, s3>>

\* random_seed without the chaining: every word is f(seed).
random_seed_unchained(old, seed) ==
    LET s0 == random__split_mix_64(seed)
    IN <<s0, s0, s0, s0>>

\* The four words random_seed writes over a state whose words were old.
random_seed(old, seed) ==
    LET s0 == random__split_mix_64(seed)
        s1 == random__split_mix_64(s0)
        s2 == random__split_mix_64(s1)
        s3 == random__split_mix_64(s2)
    IN <<s0, s1, s2, s3>>

\* rf__split_mix_64 with the last shift one place short.
rf__split_mix_64_shift(x0) ==
    LET x1 == Add(x0, GOLDEN_GAMMA)
        x2 == Mul(BXor(x1, Shr(x1, 30)), MIX_A)
        x3 == Mul(BXor(x2, Shr(x2, 27)), MIX_B)
    IN BXor(x3, Shr(x3, 30))

rf__split_mix_64(x0) ==
    LET x1 == Add(x0, GOLDEN_GAMMA)
        x2 == Mul(BXor(x1, Shr(x1, 30)), MIX_A)
        x3 == Mul(BXor(x2, Shr(x2, 27)), MIX_B)
    IN BXor(x3, Shr(x3, 31))

rf_seed(old, seed) ==
    LET s0 == rf__split_mix_64(seed)
        s1 == rf__split_mix_64(s0)
        s2 == rf__split_mix_64(s1)
        s3 == rf__split_mix_64(s2)
    IN <<s0, s1, s2, s3>>

---------------------------------------------------------------------------
(* The core step.  A state is the tuple <<s[0], s[1], s[2], s[3]>>; a step *)
(* returns the drawn word and the state it leaves.                         *)

random__rotl(x, k) == BOr(Shl(x, k), Shr(x, 64 - k))

\* random_u64's update with t read after s[1] was updated.
random_u64_update_late(s) ==
    LET a2 == BXor(s[3], s[1])
        a3 == BXor(s[4], s[2])
        a1 == BXor(s[2], a2)
        a0 == BXor(s[1], a3)
        t  == Shl(a1, 17)
        b2 == BXor(a2, t)
        b3 == random__rotl(a3, 45)
    IN <<a0, a1, b2, b3>>

\* The words a step of random_u64 leaves in s[0..3] (the assignments to
\* s[] in source order).
random_u64_update(s) ==
    LET t  == Shl(s[2], 17)
        a2 == BXor(s[3], s[1])       \* s[2] ^= s[0]
        a3 == BXor(s[4], s[2])       \* s[3] ^= s[1]
        a1 == BXor(s[2], a2)         \* s[1] ^= s[2]
        a0 == BXor(s[1], a3)         \* s[0] ^= s[3]
        b2 == BXor(a2, t)            \* s[2] ^= t
        b3 == random__rotl(a3, 45)   \* s[3] = rotl(s[3], 45)
    IN <<a0, a1, b2, b3>>

random_u64(s) ==
    [result |-> Add(random__rotl(Add(s[1], s[4]), 23), s[1]),
     s |-> random_u64_update(s)]

\* The words a step of rf__next leaves in s[0..3].
rf__next_update(s) ==
    LET t  == Shl(s[2], 17)
        a2 == BXor(s[3], s[1])
        a3 == BXor(s[4], s[2])
        a1 == BXor(s[2], a2)
        a0 == BXor(s[1], a3)
        b2 == BXor(a2, t)
        b3 == BOr(Shl(a3, 45), Shr(a3, 19))
    IN <<a0, a1, b2, b3>>

rf__next(s) == [result |-> Add(s[1], s[4]), s |-> rf__next_update(s)]

---------------------------------------------------------------------------
(* The distribution functions.  A floating-point result is the exact       *)
(* dyadic rational val * 2^-exp, held as [val |-> bit vector, exp |-> p].  *)

\* random_range's body reducing modulo range + 1 (an inclusive bound).
random_range_body_inclusive(x, range) ==
    LET m == Add(range, NatBits(1, Len(range)))
        r == IF IsZero(m) THEN x ELSE URem(x, m)
    IN [r |-> r, again |-> ULt(Neg(range), Sub(x, r))]

\* random_range's body without the rejection (plain modulo).
random_range_body_modulo(x, range) ==
    [r |-> IF IsZero(range) THEN x ELSE URem(x, range), again |-> FALSE]

\* The body of random_range's do-while on a drawn word x: the remainder
\* r = x % range and the loop condition x - r > (-range).  x % 0 is
\* undefined: where the division does not trap, it leaves x (a quotient of
\* 0, as AArch64's udiv gives); the trap is the action DivideTrap.
random_range_body(x, range) ==
    LET r == IF IsZero(range) THEN x ELSE URem(x, range)
    IN [r |-> r, again |-> ULt(Neg(range), Sub(x, r))]

\* int arithmetic: does the exact value of a + b (a - b) not fit in int?
SAddOverflows(a, b) ==
    LET sum == Add(SExt(a, Len(a) + 1), SExt(b, Len(a) + 1))
    IN sum[Len(a) + 1] # sum[Len(a)]
SSubOverflows(a, b) ==
    LET dif == Sub(SExt(a, Len(a) + 1), SExt(b, Len(a) + 1))
    IN dif[Len(a) + 1] # dif[Len(a)]
\* Signed a <= b on two's complement values of the same width.
SLe(a, b) ==
    LET flip(x) == [x EXCEPT ![Len(x)] = 1 - x[Len(x)]]
    IN ULe(flip(a), flip(b))

\* random_int before the call of random_range: the argument
\* (uint64_t)(upper - lower + 1) with int arithmetic wrapped, and whether
\* the int arithmetic overflowed (undefined behaviour).
random_int_span(lower, upper) ==
    LET d == Sub(upper, lower)
        e == Add(d, NatBits(1, IntW))
    IN [range |-> SExt(e, W),
        overflow |-> SSubOverflows(upper, lower) \/ SAddOverflows(d, NatBits(1, IntW))]

\* random_int after random_range returned r: lower + (int)r, wrapped, and
\* whether the addition overflowed.
random_int_result(lower, r) ==
    LET t == Trunc(r, IntW)
    IN [result |-> Add(lower, t), overflow |-> SAddOverflows(lower, t)]

\* random_float_01 drawing a second word for its result.
random_float_01_twice(s) ==
    LET d == random_u64(random_u64(s).s)
    IN [result |-> [val |-> Shr(d.result, 40), exp |-> 24], s |-> d.s]

random_float_01(s) ==
    LET d == random_u64(s)
    IN [result |-> [val |-> Shr(d.result, 40), exp |-> 24], s |-> d.s]

\* random_double_01 keeping 52 bits of the word.
random_double_01_shift(s) ==
    LET d == random_u64(s)
    IN [result |-> [val |-> Shr(d.result, 12), exp |-> 53], s |-> d.s]

random_double_01(s) ==
    LET d == random_u64(s)
    IN [result |-> [val |-> Shr(d.result, 11), exp |-> 53], s |-> d.s]

rf_float_01(s) ==
    LET d == rf__next(s)
    IN [result |-> [val |-> Shr(d.result, 40), exp |-> 24], s |-> d.s]

rf_double_01(s) ==
    LET d == rf__next(s)
    IN [result |-> [val |-> Shr(d.result, 11), exp |-> 53], s |-> d.s]

\* Index of the highest set bit of x (0 when x = 0).
TopBit(x) == IF IsZero(x) THEN 0 ELSE CHOOSE i \in 1..Len(x) :
                 x[i] = 1 /\ \A j \in (i + 1)..Len(x) : x[j] = 0

\* x rounded to prec significant bits, to nearest and ties to even: the
\* rounding of a floating-point operation whose exact result is x.
RoundSig(x, prec) ==
    LET h == TopBit(x)
        drop == h - prec
    IN IF drop <= 0 THEN x
       ELSE LET q == Shr(x, drop)
                rem == SubSeq(x, 1, drop) \o Zeros(Len(x) - drop)
                half == Shl(NatBits(1, Len(x)), drop - 1)
                up == ULt(half, rem) \/ (rem = half /\ q[1] = 1)
            IN Shl(IF up THEN Add(q, NatBits(1, Len(x))) ELSE q, drop)

\* The gaussian body with the loop condition s > 1.0 || s == 0.0.
gaussian_body_strict(unit, prec) ==
    LET p == unit.exp
        k2 == Shl(ZExt(unit.val, 2 * W), 1)
        one == Shl(NatBits(1, 2 * W), p)
        m == RoundSig(IF ULt(k2, one) THEN Sub(one, k2) ELSE Sub(k2, one), prec)
        sq == RoundSig(Mul(m, m), prec)
    IN [m |-> m, neg |-> ULt(k2, one), sq |-> sq,
        again |-> ULt(Shl(NatBits(1, 2 * W), 2 * p), sq) \/ IsZero(sq)]

\* The body of a gaussian sampler's do-while on a unit sample
\* unit.val * 2^-p held with prec significant bits:
\*     u = unit * 2.0 - 1.0;  s = u * u;  while (s >= 1.0 || s == 0.0)
\* |u| = m * 2^-p and s = sq * 2^-2p, both in 2W bits.
gaussian_body(unit, prec) ==
    LET p == unit.exp
        k2 == Shl(ZExt(unit.val, 2 * W), 1)
        one == Shl(NatBits(1, 2 * W), p)
        m == RoundSig(IF ULt(k2, one) THEN Sub(one, k2) ELSE Sub(k2, one), prec)
        sq == RoundSig(Mul(m, m), prec)
    IN [m |-> m, neg |-> ULt(k2, one), sq |-> sq,
        again |-> ULe(Shl(NatBits(1, 2 * W), 2 * p), sq) \/ IsZero(sq)]

random_float_gaussian_body(s) ==
    LET f == random_float_01(s)
    IN [s |-> f.s, unit |-> f.result, again |-> gaussian_body(f.result, 24).again]

random_double_gaussian_body(s) ==
    LET f == random_double_01(s)
    IN [s |-> f.s, unit |-> f.result, again |-> gaussian_body(f.result, 53).again]

rf_float_gaussian_body(s) ==
    LET f == rf_float_01(s)
    IN [s |-> f.s, unit |-> f.result, again |-> gaussian_body(f.result, 24).again]

rf_double_gaussian_body(s) ==
    LET f == rf_double_01(s)
    IN [s |-> f.s, unit |-> f.result, again |-> gaussian_body(f.result, 53).again]

---------------------------------------------------------------------------
(* The program: one generator object and a single thread calling the API.  *)

\* Bounds of the model: calls start only while fewer than MaxAge words
\* were drawn since the state was last written by seeding; draws of one
\* call are counted up to MaxDraws.
MaxAge == 3
MaxDraws == 3

Word(ds) == HexBits(ds)
ZeroState == <<Zeros(W), Zeros(W), Zeros(W), Zeros(W)>>
\* s[0] = 0x8000000000000000, the other words 0
HalfState == <<Shl(NatBits(1, W), W - 1), Zeros(W), Zeros(W), Zeros(W)>>
\* Contents a state can hold before it is seeded (static storage is zero).
RawStates == {ZeroState, HalfState}

\* Seeds: 0; 0x61c8864680b583eb, which SplitMix64 maps to 0;
\* 0xc5deefb0344c1df5, which it maps to the former; and 2^64 - 1.
Seeds == {Zeros(W),
          Word(<<6,1,12,8, 8,6,4,6, 8,0,11,5, 8,3,14,11>>),
          Word(<<12,5,13,14, 14,15,11,0, 3,4,4,12, 1,13,15,5>>),
          Ones(W)}

\* Arguments of random_range: 1, 3, 2^63 + 1, 2^64 - 1.
RangeArgs == {NatBits(1, W), NatBits(3, W),
              <<1>> \o Zeros(W - 2) \o <<1>>, Ones(W)}

IntBits(k) == IF k >= 0 THEN NatBits(k, IntW) ELSE Neg(NatBits(-k, IntW))
INT_MAX == Ones(IntW - 1) \o <<0>>
INT_MIN == Zeros(IntW - 1) \o <<1>>
\* Arguments <<lower, upper>> of random_int, upper >= lower.
IntArgs == {<<IntBits(5), IntBits(5)>>, <<IntBits(-3), IntBits(4)>>,
            <<IntBits(0), INT_MAX>>, <<INT_MIN, INT_MAX>>}
\* Arguments <<lower, upper>> of the ranged floats and <<mu, sigma>> of the
\* gaussian samplers (integer-valued).
FloatArgs == {<<IntBits(-2), IntBits(5)>>}
GaussArgs == {<<IntBits(0), IntBits(1)>>}

VARIABLES
    kind,     \* the type of the generator object: "RandomState" or "RFState"
    state,    \* its four words s[0..3]
    seeded,   \* whether a seeding function has written the state
    age,      \* words drawn since the state last was written by seeding
    pc,       \* "idle", inside a loop ("range", "gauss"), or "trapped"
    call,     \* the running or the last call
    ret       \* the value the last call returned

vars == <<kind, state, seeded, age, pc, call, ret>>

NoRet == [val |-> <<>>, exp |-> 0]
Called(op, lo, hi, n, entry, draws) ==
    [op |-> op, lo |-> lo, hi |-> hi, n |-> n, entry |-> entry, draws |-> draws]
Min(a, b) == IF a < b THEN a ELSE b
\* The call after one more draw.
Drawn(c) == [c EXCEPT !.draws = Min(c.draws + 1, MaxDraws)]

Init ==
    /\ kind \in {"RandomState", "RFState"}
    /\ state \in RawStates
    /\ seeded = FALSE
    /\ age = 0
    /\ pc = "idle"
    /\ call = Called("none", <<>>, <<>>, <<>>, <<>>, 0)
    /\ ret = NoRet

CanCall(k) == pc = "idle" /\ kind = k /\ age < MaxAge

\* ---- seeding
RandomSeed(seed) ==
    /\ pc = "idle" /\ kind = "RandomState"
    /\ state' = random_seed(state, seed)
    /\ seeded' = TRUE /\ age' = 0
    /\ call' = Called("random_seed", <<>>, <<>>, seed, <<>>, 0)
    /\ ret' = NoRet
    /\ UNCHANGED <<kind, pc>>

RfSeed(seed) ==
    /\ pc = "idle" /\ kind = "RFState"
    /\ state' = rf_seed(state, seed)
    /\ seeded' = TRUE /\ age' = 0
    /\ call' = Called("rf_seed", <<>>, <<>>, seed, <<>>, 0)
    /\ ret' = NoRet
    /\ UNCHANGED <<kind, pc>>

\* ---- functions that draw one word and return
\* A call op(lo, hi) that draws once: d is [result, s].
Once(op, lo, hi, d) ==
    /\ state' = d.s
    /\ age' = Min(age + 1, MaxAge)
    /\ call' = Called(op, lo, hi, <<>>, state, 1)
    /\ ret' = d.result
    /\ UNCHANGED <<kind, seeded, pc>>

RandomU64 ==
    /\ CanCall("RandomState")
    /\ LET d == random_u64(state)
       IN Once("random_u64", <<>>, <<>>, [result |-> [val |-> d.result, exp |-> 0], s |-> d.s])

RfNext ==
    /\ CanCall("RFState")
    /\ LET d == rf__next(state)
       IN Once("rf__next", <<>>, <<>>, [result |-> [val |-> d.result, exp |-> 0], s |-> d.s])

RandomFloat01 == CanCall("RandomState") /\ Once("random_float_01", <<>>, <<>>, random_float_01(state))
RandomDouble01 == CanCall("RandomState") /\ Once("random_double_01", <<>>, <<>>, random_double_01(state))
RfFloat01 == CanCall("RFState") /\ Once("rf_float_01", <<>>, <<>>, rf_float_01(state))
RfDouble01 == CanCall("RFState") /\ Once("rf_double_01", <<>>, <<>>, rf_double_01(state))

\* lower + (upper - lower) * unit: ret holds the unit sample; the rounded
\* floating-point value computed from it is not modelled.
RandomFloat(a) == CanCall("RandomState") /\ Once("random_float", a[1], a[2], random_float_01(state))
RandomDouble(a) == CanCall("RandomState") /\ Once("random_double", a[1], a[2], random_double_01(state))
RfFloat(a) == CanCall("RFState") /\ Once("rf_float", a[1], a[2], rf_float_01(state))
RfDouble(a) == CanCall("RFState") /\ Once("rf_double", a[1], a[2], rf_double_01(state))

\* ---- random_range and random_int
Enter(loop, op, lo, hi, n) ==
    /\ pc' = loop
    /\ call' = Called(op, lo, hi, n, state, 0)
    /\ ret' = NoRet
    /\ UNCHANGED <<kind, state, seeded, age>>

Trap ==
    /\ pc' = "trapped"
    /\ ret' = NoRet
    /\ UNCHANGED <<kind, seeded>>

RandomRange(n) ==
    /\ CanCall("RandomState")
    /\ Enter("range", "random_range", <<>>, <<>>, n)

\* upper - lower + 1 in int, converted to uint64_t.  Signed overflow is
\* undefined: the build wraps (RandomInt) or traps (RandomIntTrap).
RandomInt(a) ==
    /\ CanCall("RandomState")
    /\ Enter("range", "random_int", a[1], a[2], random_int_span(a[1], a[2]).range)

RandomIntTrap(a) ==
    /\ CanCall("RandomState")
    /\ random_int_span(a[1], a[2]).overflow
    /\ Trap
    /\ call' = Called("random_int", a[1], a[2], <<>>, state, 0)
    /\ UNCHANGED <<state, age>>

\* One pass of the do-while of random_range.
RangeStep(d, b) ==
    /\ state' = d.s
    /\ age' = Min(age + 1, MaxAge)
    /\ call' = Drawn(call)
    /\ UNCHANGED <<kind, seeded>>

RangeRetry ==
    /\ pc = "range"
    /\ LET d == random_u64(state)
           b == random_range_body(d.result, call.n)
       IN /\ b.again
          /\ RangeStep(d, b)
          /\ UNCHANGED <<pc, ret>>

RangeReturn ==
    /\ pc = "range" /\ call.op = "random_range"
    /\ LET d == random_u64(state)
           b == random_range_body(d.result, call.n)
       IN /\ ~b.again
          /\ RangeStep(d, b)
          /\ pc' = "idle"
          /\ ret' = [val |-> b.r, exp |-> 0]

\* x % 0 traps (x86 raises a divide error).
DivideTrap ==
    /\ pc = "range" /\ IsZero(call.n)
    /\ LET d == random_u64(state)
       IN /\ state' = d.s
          /\ age' = Min(age + 1, MaxAge)
          /\ call' = Drawn(call)
          /\ Trap

\* random_int returns lower + (int)r; an overflow of the addition wraps
\* (IntReturn) or traps (IntReturnTrap).
IntReturn ==
    /\ pc = "range" /\ call.op = "random_int"
    /\ LET d == random_u64(state)
           b == random_range_body(d.result, call.n)
       IN /\ ~b.again
          /\ RangeStep(d, b)
          /\ pc' = "idle"
          /\ ret' = [val |-> random_int_result(call.lo, b.r).result, exp |-> 0]

IntReturnTrap ==
    /\ pc = "range" /\ call.op = "random_int"
    /\ LET d == random_u64(state)
           b == random_range_body(d.result, call.n)
       IN /\ ~b.again
          /\ random_int_result(call.lo, b.r).overflow
          /\ RangeStep(d, b)
          /\ Trap

\* ---- the gaussian samplers
RandomFloatGaussian(a) == CanCall("RandomState") /\ Enter("gauss", "random_float_gaussian", a[1], a[2], <<>>)
RandomDoubleGaussian(a) == CanCall("RandomState") /\ Enter("gauss", "random_double_gaussian", a[1], a[2], <<>>)
RfFloatGaussian(a) == CanCall("RFState") /\ Enter("gauss", "rf_float_gaussian", a[1], a[2], <<>>)
RfDoubleGaussian(a) == CanCall("RFState") /\ Enter("gauss", "rf_double_gaussian", a[1], a[2], <<>>)

\* The body of the running sampler's do-while on the state s.
GaussBody(op, s) ==
    CASE op = "random_float_gaussian" -> random_float_gaussian_body(s)
      [] op = "random_double_gaussian" -> random_double_gaussian_body(s)
      [] op = "rf_float_gaussian" -> rf_float_gaussian_body(s)
      [] op = "rf_double_gaussian" -> rf_double_gaussian_body(s)

\* One pass of the do-while of a gaussian sampler.  On return ret holds the
\* accepted unit sample; mu + sigma * (u * sqrt(-0.5 * log(s) / s)) is not
\* modelled.
GaussRetry ==
    /\ pc = "gauss"
    /\ LET b == GaussBody(call.op, state)
       IN /\ b.again
          /\ state' = b.s
          /\ age' = Min(age + 1, MaxAge)
          /\ call' = Drawn(call)
          /\ UNCHANGED <<kind, seeded, pc, ret>>

GaussReturn ==
    /\ pc = "gauss"
    /\ LET b == GaussBody(call.op, state)
       IN /\ ~b.again
          /\ state' = b.s
          /\ age' = Min(age + 1, MaxAge)
          /\ call' = Drawn(call)
          /\ pc' = "idle"
          /\ ret' = b.unit
          /\ UNCHANGED <<kind, seeded>>

Next ==
    \/ \E seed \in Seeds : RandomSeed(seed)
    \/ \E seed \in Seeds : RfSeed(seed)
    \/ RandomU64
    \/ RfNext
    \/ RandomFloat01
    \/ RandomDouble01
    \/ RfFloat01
    \/ RfDouble01
    \/ \E a \in FloatArgs : RandomFloat(a)
    \/ \E a \in FloatArgs : RandomDouble(a)
    \/ \E a \in FloatArgs : RfFloat(a)
    \/ \E a \in FloatArgs : RfDouble(a)
    \/ \E n \in RangeArgs : RandomRange(n)
    \/ \E a \in IntArgs : RandomInt(a)
    \/ \E a \in IntArgs : RandomIntTrap(a)
    \/ RangeRetry
    \/ RangeReturn
    \/ DivideTrap
    \/ IntReturn
    \/ IntReturnTrap
    \/ \E a \in GaussArgs : RandomFloatGaussian(a)
    \/ \E a \in GaussArgs : RandomDoubleGaussian(a)
    \/ \E a \in GaussArgs : RfFloatGaussian(a)
    \/ \E a \in GaussArgs : RfDoubleGaussian(a)
    \/ GaussRetry
    \/ GaussReturn

Spec == Init /\ [][Next]_vars

\* A call that is inside a loop goes on executing it: the thread takes the
\* loop's next core step.
LoopDraw ==
    /\ pc \in {"range", "gauss"}
    /\ state' = (IF kind = "RandomState" THEN random_u64_update(state)
                                         ELSE rf__next_update(state))
LiveSpec == Init /\ [][Next]_vars /\ WF_state(LoopDraw)

---------------------------------------------------------------------------
(* Two generator objects of the same type driven in lockstep.  state and   *)
(* ret hold a pair, one entry per object; every call runs to its return.   *)

\* random_range(state, range) as a whole call on the words s: d is the
\* draw of a pass, b what the loop body makes of it.
RECURSIVE random_range(_, _)
random_range_pass(d, b, range) ==
    IF b.again THEN random_range(d.s, range)
               ELSE [result |-> [val |-> b.r, exp |-> 0], s |-> d.s]
random_range_draw(d, range) ==
    random_range_pass(d, random_range_body(d.result, range), range)
random_range(s, range) == random_range_draw(random_u64(s), range)

\* A gaussian sampler's loop as a whole, up to the accepted unit sample;
\* b is the body of a pass.
RECURSIVE GaussCall(_, _)
GaussPass(op, b) ==
    IF b.again THEN GaussCall(op, b.s) ELSE [result |-> b.unit, s |-> b.s]
GaussCall(op, s) == GaussPass(op, GaussBody(op, s))

\* A core step as a call: the word it returns and the words it leaves.
CoreCall(d) == [result |-> [val |-> d.result, exp |-> 0], s |-> d.s]

\* The call op(s, n): the value it returns and the words it leaves.
RunCall(op, n, s) ==
    CASE op = "random_u64" -> CoreCall(random_u64(s))
      [] op = "rf__next" -> CoreCall(rf__next(s))
      [] op = "random_float_01" -> random_float_01(s)
      [] op = "random_double_01" -> random_double_01(s)
      [] op = "rf_float_01" -> rf_float_01(s)
      [] op = "rf_double_01" -> rf_double_01(s)
      [] op = "random_range" -> random_range(s, n)
      [] OTHER -> GaussCall(op, s)

DrawOps(k) == IF k = "RandomState"
              THEN {"random_u64", "random_float_01", "random_double_01"}
              ELSE {"rf__next", "rf_float_01", "rf_double_01"}
GaussOps(k) == IF k = "RandomState"
               THEN {"random_float_gaussian", "random_double_gaussian"}
               ELSE {"rf_float_gaussian", "rf_double_gaussian"}

\* The two objects start with different contents.
TwinInit ==
    /\ kind \in {"RandomState", "RFState"}
    /\ state \in {<<a, b>> : a \in RawStates, b \in RawStates}
    /\ state[1] # state[2]
    /\ seeded = FALSE
    /\ age = 0
    /\ pc = "idle"
    /\ call = Called("none", <<>>, <<>>, <<>>, <<>>, 0)
    /\ ret = <<NoRet, NoRet>>

\* Both objects are seeded with the same seed.
TwinSeed(seed) ==
    /\ state' = IF kind = "RandomState"
                THEN <<random_seed(state[1], seed), random_seed(state[2], seed)>>
                ELSE <<rf_seed(state[1], seed), rf_seed(state[2], seed)>>
    /\ seeded' = TRUE /\ age' = 0
    /\ call' = Called(IF kind = "RandomState" THEN "random_seed" ELSE "rf_seed",
                      <<>>, <<>>, seed, state, 0)
    /\ ret' = <<NoRet, NoRet>>
    /\ UNCHANGED <<kind, pc>>

\* Both objects have returned: c1 and c2 are what the calls gave.
TwinReturn(c1, c2) ==
    /\ state' = <<c1.s, c2.s>>
    /\ ret' = <<c1.result, c2.result>>

\* The same call op(state, n) on both objects; age counts the calls.
TwinCall(op, n) ==
    /\ age < MaxAge
    /\ TwinReturn(RunCall(op, n, state[1]), RunCall(op, n, state[2]))
    /\ age' = age + 1
    /\ call' = Called(op, <<>>, <<>>, n, state, 1)
    /\ UNCHANGED <<kind, seeded, pc>>

TwinDraw(op) == op \in DrawOps(kind) /\ TwinCall(op, <<>>)
TwinRange(n) == seeded /\ kind = "RandomState" /\ TwinCall("random_range", n)
TwinGauss(op) == seeded /\ op \in GaussOps(kind) /\ TwinCall(op, <<>>)

TwinNext ==
    \/ \E seed \in Seeds : TwinSeed(seed)
    \/ \E op \in DrawOps(kind) : TwinDraw(op)
    \/ \E n \in RangeArgs : TwinRange(n)
    \/ \E op \in GaussOps(kind) : TwinGauss(op)

TwinSpec == TwinInit /\ [][TwinNext]_vars

---------------------------------------------------------------------------
(* The body of random_range's loop on every word of a narrow machine word  *)
(* (RW bits instead of 64): age is the next word, state the last word and  *)
(* what the body made of it, ret the tally of the results.                 *)

RW == 4

NoTally == [acc |-> [r \in 0..(2^RW - 1) |-> 0], rej |-> 0]

RangeInit ==
    /\ kind = "RandomState"
    /\ state = <<>>
    /\ seeded = FALSE
    /\ age = 0
    /\ pc = "range"
    /\ \E n \in 1..(2^RW - 1) :
           call = Called("random_range", <<>>, <<>>, NatBits(n, RW), <<>>, 0)
    /\ ret = NoTally

\* The loop body on the word x.
RangeBody(x) ==
    LET b == random_range_body(x, call.n)
    IN [x |-> x, r |-> b.r, again |-> b.again]

\* The word age is accepted: the loop ends and r is returned.
RangeAccept ==
    /\ pc = "range" /\ age < 2^RW
    /\ LET b == RangeBody(NatBits(age, RW))
       IN /\ ~b.again
          /\ state' = b
          /\ ret' = [ret EXCEPT !.acc[Val(b.r)] = @ + 1]
    /\ age' = age + 1
    /\ UNCHANGED <<kind, seeded, pc, call>>

\* The word age is rejected: the loop draws again.
RangeReject ==
    /\ pc = "range" /\ age < 2^RW
    /\ LET b == RangeBody(NatBits(age, RW))
       IN /\ b.again
          /\ state' = b
          /\ ret' = [ret EXCEPT !.rej = @ + 1]
    /\ age' = age + 1
    /\ UNCHANGED <<kind, seeded, pc, call>>

RangeNext == RangeAccept \/ RangeReject

RangeSpec == RangeInit /\ [][RangeNext]_vars

---------------------------------------------------------------------------
(* Properties.                                                             *)

Returned(op) == pc = "idle" /\ call.op = op

\* x rotated left by k places, as a cyclic shift of its bits.
CyclicLeft(x, k) == SubSeq(x, Len(x) - k + 1, Len(x)) \o SubSeq(x, 1, Len(x) - k)

\* One core step on the words <<a, b, c, d>> in closed form:
\* (a ^ d ^ b, b ^ c ^ a, c ^ a ^ (b << 17), rotl(d ^ b, 45)).
StepWords(s) ==
    <<BXor(BXor(s[1], s[4]), s[2]),
      BXor(BXor(s[2], s[3]), s[1]),
      BXor(BXor(s[3], s[1]), Shl(s[2], 17)),
      CyclicLeft(BXor(s[4], s[2]), 45)>>

RECURSIVE StepsWords(_, _)
StepsWords(s, k) == IF k = 0 THEN s ELSE StepsWords(StepWords(s), k - 1)

\* C1: whatever the state (seeded or not, the all-zero state included) and
\* for every n > 0, the value random_range(state, n) returns is below n,
\* and it is 0 when n = 1.
C1_RangeBelowN ==
    Returned("random_range") =>
        /\ ~IsZero(call.n)
        /\ ULt(ret.val, call.n)
        /\ (call.n = NatBits(1, W) => IsZero(ret.val))

\* C1 witness: random_range(state, 2^63 + 1) returned a non-zero value
\* after the loop rejected a word.
C1_Witness ==
    /\ Returned("random_range")
    /\ call.n = <<1>> \o Zeros(W - 2) \o <<1>>
    /\ call.draws >= 2
    /\ ~IsZero(ret.val)

\* C2: for signed ints upper >= lower, over the whole int domain,
\* random_int(state, lower, upper) returns x with lower <= x <= upper, and
\* lower itself when lower = upper.
C2_IntWithinBounds ==
    Returned("random_int") =>
        /\ SLe(call.lo, ret.val)
        /\ SLe(ret.val, call.hi)
        /\ (call.lo = call.hi => ret.val = call.lo)

\* The top p bits of the word w, as a number below 2^p.
TopBits(w, p) == SubSeq(w, Len(w) - p + 1, Len(w)) \o Zeros(Len(w) - p)
\* The word the call drew from the state it was entered with.
WordDrawn == IF kind = "RandomState" THEN random_u64(call.entry).result
                                     ELSE rf__next(call.entry).result

\* C3: random_float_01 and rf_float_01 return k * 2^-24 with k the top 24
\* bits of the drawn word, random_double_01 and rf_double_01 return
\* k * 2^-53 with k its top 53 bits; so k < 2^24 (2^53) and the result is
\* in [0, 1), never 1.
C3_UnitInterval ==
    /\ (Returned("random_float_01") \/ Returned("rf_float_01")) =>
          /\ ret.exp = 24
          /\ ret.val = TopBits(WordDrawn, 24)
          /\ ULt(ret.val, Shl(NatBits(1, W), 24))
    /\ (Returned("random_double_01") \/ Returned("rf_double_01")) =>
          /\ ret.exp = 53
          /\ ret.val = TopBits(WordDrawn, 53)
          /\ ULt(ret.val, Shl(NatBits(1, W), 53))

\* C3 witness: random_double_01 returned exactly 0 (the top 53 bits of the
\* drawn word were 0).
C3_Witness ==
    /\ Returned("random_double_01")
    /\ IsZero(ret.val)
    /\ ret.exp = 53

C5_Unbiased ==
    LET n == Val(call.n)
        M == 2^RW
    IN /\ age > 0 =>
            LET x == Val(state.x)
            IN /\ state.again <=> (x - (x % n) > (M - n) % M)
               /\ (x \div n < M \div n) => ~state.again
               /\ ~state.again => Val(state.r) = x % n
       /\ age = M =>
            /\ \A r \in 0..(n - 1) : ret.acc[r] = M \div n
            /\ \A r \in n..(M - 1) : ret.acc[r] = 0
            /\ ret.rej = M % n

\* C5 witness: all words were tallied for n = 3, which does not divide
\* 2^RW, so that words were rejected.
C5_Witness ==
    /\ age = 2^RW
    /\ Val(call.n) = 3
    /\ ret.rej > 0
    /\ ret.acc[2] > 0

\* C6: once seeded, the state has a non-zero word, and keeps one after
\* every generation call.
C6_NeverAllZero == seeded => state # ZeroState

\* C6 witness: words were drawn from a state that seeding left with
\* s[0] = 0.
C6_Witness ==
    /\ seeded
    /\ age >= 2
    /\ pc = "idle"
    /\ call.draws >= 1
    /\ \E seed \in Seeds : IsZero(random_seed(ZeroState, seed)[1])
                             /\ StepsWords(random_seed(ZeroState, seed), age) = state

\* f of C7: add 0x9e3779b97f4a7c15, then x = (x ^ (x >> 30)) *
\* 0xbf58476d1ce4e5b9, x = (x ^ (x >> 27)) * 0x94d049bb133111eb, and
\* x ^ (x >> 31), all modulo 2^64.
MixF(x) ==
    LET y == Add(x, Word(<<9,14,3,7, 7,9,11,9, 7,15,4,10, 7,12,1,5>>))
        z == Mul(BXor(y, Shr(y, 30)), Word(<<11,15,5,8, 4,7,6,13, 1,12,14,4, 14,5,11,9>>))
        v == Mul(BXor(z, Shr(z, 27)), Word(<<9,4,13,0, 4,9,11,11, 1,3,3,1, 1,1,14,11>>))
    IN BXor(v, Shr(v, 31))

\* C7: after random_seed or rf_seed with any seed (0 included) the words
\* are s[0] = f(seed), s[1] = f(s[0]), s[2] = f(s[1]), s[3] = f(s[2]),
\* whatever they were before; seeding has no error path.  For seed 0,
\* s[0] is SplitMix64's first output 0xe220a8397b1dcdaf.
C7_SeedChain ==
    call.op \in {"random_seed", "rf_seed"} =>
        /\ pc = "idle" /\ seeded
        /\ state[1] = MixF(call.n)
        /\ state[2] = MixF(state[1])
        /\ state[3] = MixF(state[2])
        /\ state[4] = MixF(state[3])
        /\ (IsZero(call.n) =>
               state[1] = Word(<<14,2,2,0, 10,8,3,9, 7,11,1,13, 12,13,10,15>>))

\* C7 witness: rf_seed(state, 0) has run.
C7_Witness ==
    /\ call.op = "rf_seed"
    /\ IsZero(call.n)
    /\ state[4] = Word(<<2,1,3,0, 7,4,8,10, 10,10,12,8, 0,2,6,8>>)

\* C8: a core step on <<a, b, c, d>> returns rotl(a + d, 23) + a in
\* random_u64 and a + d in rf__next, from the words before the step, and
\* leaves (a ^ d ^ b, b ^ c ^ a, c ^ a ^ (b << 17), rotl(d ^ b, 45)); both
\* variants make the same transition from the same words.
C8_CoreStep ==
    /\ Returned("random_u64") =>
          /\ ret.val = Add(CyclicLeft(Add(call.entry[1], call.entry[4]), 23), call.entry[1])
          /\ state = StepWords(call.entry)
          /\ rf__next(call.entry).s = state
    /\ Returned("rf__next") =>
          /\ ret.val = Add(call.entry[1], call.entry[4])
          /\ state = StepWords(call.entry)
          /\ random_u64(call.entry).s = state

\* C8 witness: random_u64 returned its second word after seeding with 0,
\* 0x95cf0253ee167d21.
C8_Witness ==
    /\ Returned("random_u64")
    /\ seeded
    /\ ret.val = Word(<<9,5,12,15, 0,2,5,3, 14,14,1,6, 7,13,2,1>>)

DrawOnceOps == {"random_float_01", "random_double_01", "random_float", "random_double",
                "rf_float_01", "rf_double_01", "rf_float", "rf_double"}
RangeOps == {"random_range", "random_int"}

\* C9 as stated: every non-gaussian distribution function advances the
\* state by exactly one or exactly two core steps per returned value.
C9_OneOrTwoSteps ==
    (pc = "idle" /\ call.op \in DrawOnceOps \cup RangeOps) =>
        \/ state = StepWords(call.entry)
        \/ state = StepWords(StepWords(call.entry))

\* C9 amended: the unit and ranged float functions advance the state by
\* exactly one core step per returned value; random_range and random_int
\* advance it by one core step per pass of the loop, at least one and
\* without a fixed upper bound; none changes the state in another way.
C9_StepsPerValue ==
    /\ (pc = "idle" /\ call.op \in DrawOnceOps) =>
          /\ call.draws = 1
          /\ state = StepWords(call.entry)
    /\ (pc = "idle" /\ call.op \in RangeOps) =>
          /\ call.draws >= 1
          /\ (call.draws < MaxDraws => state = StepsWords(call.entry, call.draws))
    /\ (pc = "range" /\ call.draws < MaxDraws) =>
          state = StepsWords(call.entry, call.draws)

\* C9 witness: random_range returned after exactly two core steps.
C9_Witness ==
    /\ Returned("random_range")
    /\ call.draws = 2
    /\ state = StepWords(StepWords(call.entry))

\* The word a core step on the words s returns: rotl(a + d, 23) + a for
\* a RandomState, a + d for an RFState.
StepOutput(s) ==
    IF kind = "RandomState" THEN Add(CyclicLeft(Add(s[1], s[4]), 23), s[1])
                            ELSE Add(s[1], s[4])

\* x - (x mod n) <= 2^64 - n, as (x - (x mod n)) + n <= 2^64 in 65 bits.
RangeAccepts(x, n) ==
    ULe(Add(ZExt(Sub(x, URem(x, n)), W + 1), ZExt(n, W + 1)), Zeros(W) \o <<1>>)

\* The kept top p bits of x are neither 0 nor half of the full scale 2^p.
GaussAccepts(x, p) ==
    /\ ~IsZero(TopBits(x, p))
    /\ TopBits(x, p) # Shl(NatBits(1, W), p - 1)

GaussPrecision(op) ==
    IF op \in {"random_float_gaussian", "rf_float_gaussian"} THEN 24 ELSE 53

\* Every pass of a rejection loop takes exactly one core step, and leaves
\* the loop exactly when the drawn word is accepted.
LoopPass ==
    /\ (pc = "range" /\ call.op = "random_range") =>
          /\ state' = StepWords(state)
          /\ pc' \in {"range", "idle"}
          /\ (pc' = "idle") <=> RangeAccepts(StepOutput(state), call.n)
    /\ pc = "gauss" =>
          /\ state' = StepWords(state)
          /\ pc' \in {"gauss", "idle"}
          /\ (pc' = "idle") <=> GaussAccepts(StepOutput(state), GaussPrecision(call.op))

InSeededLoop ==
    /\ seeded
    /\ \/ pc = "range" /\ call.op = "random_range"
       \/ pc = "gauss"

\* C10: from a seeded state random_range(state, n), n > 0, and the four
\* gaussian samplers return; each pass of their loops takes one core step;
\* random_range leaves its loop on the first word x with
\* x - (x mod n) <= 2^64 - n, a gaussian sampler on the first word whose
\* kept top bits are neither 0 nor half of the full scale.
C10_LoopsTerminate ==
    /\ InSeededLoop ~> (pc = "idle")
    /\ [][LoopPass]_vars

\* C10 witness: random_range returned from a seeded state after its loop
\* rejected at least two words.
C10_Witness ==
    /\ Returned("random_range")
    /\ seeded
    /\ call.draws = MaxDraws

====
